---- MODULE Spec2Model ----
(***************************************************************************)
(* Model of the domain_patterns derive macros (crate domain_derive): the   *)
(* type checks, the per-directive preconditions, the code each derive      *)
(* emits, and calls of the emitted code.                                   *)
(*                                                                         *)
(* Identifiers are sequences of one-character strings, so that             *)
(* to_lowercase() and contains() are computed character by character.      *)
(* Diagnostics are sequences of words.                                     *)
(***************************************************************************)
EXTENDS Integers, Sequences, FiniteSets, TLC

\* ------------------------------------------------------------------ bounds
MaxFields == 4
MaxVariants == 2
MaxNameLen == 3
MaxUsers == 2
MaxEvents == 2
MaxMutations == 3

\* ------------------------------------------------------- strings as chars
UpperChars == <<"A","B","C","D","E","F","G","H","I","J","K","L","M",
                "N","O","P","Q","R","S","T","U","V","W","X","Y","Z">>

LowerChars == <<"a","b","c","d","e","f","g","h","i","j","k","l","m",
                "n","o","p","q","r","s","t","u","v","w","x","y","z">>

\* char::to_lowercase on the characters of an identifier
char_to_lowercase(c) ==
    IF \E i \in 1..Len(UpperChars) : UpperChars[i] = c
    THEN LowerChars[CHOOSE i \in 1..Len(UpperChars) : UpperChars[i] = c]
    ELSE c

\* str::to_lowercase
to_lowercase(s) == [i \in 1..Len(s) |-> char_to_lowercase(s[i])]

\* str::contains(pat): pat occurs as a contiguous substring of s
contains(s, pat) ==
    \E k \in 0..Len(s) :
        /\ k + Len(pat) <= Len(s)
        /\ \A j \in 1..Len(pat) : s[k + j] = pat[j]

Reverse(s) == [i \in 1..Len(s) |-> s[Len(s) + 1 - i]]

\* ------------------------------------------------------------ identifiers
N_id == <<"i","d">>
N_version == <<"v","e","r","s","i","o","n">>
N_aggregate_id == <<"a","g","g","r","e","g","a","t","e","_","i","d">>
N_occurred == <<"o","c","c","u","r","r","e","d">>
N_value == <<"v","a","l","u","e">>
N_name == <<"n","a","m","e">>
N_uuid == <<"u","u","i","d">>

\* ------------------------------------------------------------------ types
\* syn::Type: a path type carries its segments, every other form has none.
PathType(segs) == [form |-> "Path", segments |-> segs]

T_Uuid == PathType(<< <<"U","u","i","d">> >>)
T_uuid_Uuid == PathType(<< <<"u","u","i","d">>, <<"U","u","i","d">> >>)
T_String == PathType(<< <<"S","t","r","i","n","g">> >>)
T_u64 == PathType(<< <<"u","6","4">> >>)
T_i64 == PathType(<< <<"i","6","4">> >>)
T_i32 == PathType(<< <<"i","3","2">> >>)
T_ref_str == [form |-> "Reference", segments |-> << >>]
T_std_string_String ==
    PathType(<< <<"s","t","d">>, <<"s","t","r","i","n","g">>,
                <<"S","t","r","i","n","g">> >>)

\* ----------------------------------------------------------- declarations
\* syn::Attribute: the path of the attribute and its text
DocAttr(text) == [path |-> "doc", text |-> text]
OtherAttr(path) == [path |-> path, text |-> ""]

\* syn::Field: ident, ty, vis (syn::Visibility), attrs
FldA(n, t, v, a) == [ident |-> n, ty |-> t, vis |-> v, attrs |-> a]
Fld(n, t, v) == FldA(n, t, v, << >>)

\* The field declarations the model draws from, one slot per field name.
FieldSlots ==
    << { Fld(N_id, T_Uuid, "Inherited"), Fld(N_id, T_uuid_Uuid, "Inherited"),
         Fld(N_id, T_String, "Inherited"), Fld(N_id, T_Uuid, "Public") },
       { Fld(N_version, T_u64, "Inherited"), Fld(N_version, T_i32, "Inherited"),
         Fld(N_version, T_String, "Inherited"), Fld(N_version, T_u64, "Public") },
       { Fld(N_aggregate_id, T_Uuid, "Inherited"),
         FldA(N_aggregate_id, T_String, "Inherited",
              <<OtherAttr("allow"), DocAttr("The aggregate.")>>),
         Fld(N_aggregate_id, T_String, "Public") },
       { Fld(N_occurred, T_u64, "Inherited"), Fld(N_occurred, T_i64, "Inherited"),
         Fld(N_occurred, T_i64, "Public") },
       { Fld(N_value, T_String, "Public"), Fld(N_value, T_String, "Inherited"),
         Fld(N_value, T_ref_str, "Inherited"),
         Fld(N_value, T_std_string_String, "Inherited") },
       { FldA(N_name, T_String, "Inherited",
              <<DocAttr("The name."), OtherAttr("serde"), DocAttr("Not empty.")>>),
         Fld(N_name, T_String, "Public"),
         FldA(N_name, T_String, "Restricted", <<OtherAttr("serde")>>) } >>

RECURSIVE FieldListsFrom(_)
FieldListsFrom(i) ==
    IF i > Len(FieldSlots) THEN { << >> }
    ELSE LET rest == FieldListsFrom(i + 1)
         IN  rest \cup { <<f>> \o r : f \in FieldSlots[i], r \in rest }

\* Field lists in slot order and in the opposite order, names unique.
FieldLists ==
    LET fwd == { fl \in FieldListsFrom(1) : Len(fl) <= MaxFields }
    IN  fwd \cup { Reverse(fl) : fl \in fwd }

VariantNames == { "FirstNameUpdated", "EmailUpdated", "Deleted" }

RECURSIVE VariantLists(_)
VariantLists(n) ==
    IF n = 0 THEN { << >> }
    ELSE LET shorter == VariantLists(n - 1)
         IN  shorter \cup
             { Append(vl, v) : vl \in { s \in shorter : Len(s) = n - 1 },
                               v \in VariantNames }

\* The name of the declared type.
N_T == <<"T">>

\* syn::DeriveInput: ident and data (Data::Struct / Data::Enum / Data::Union)
StructInput(fl) ==
    [ident |-> N_T, data |-> "Struct", fields |-> fl, variants |-> << >>]

EnumInput(vl) ==
    [ident |-> N_T, data |-> "Enum", fields |-> << >>, variants |-> vl]

UnionInput ==
    [ident |-> N_T, data |-> "Union", fields |-> << >>, variants |-> << >>]

DeriveInputs ==
    { StructInput(fl) : fl \in FieldLists }
    \cup { EnumInput(vl) :
             vl \in { s \in VariantLists(MaxVariants) :
                        \A i, j \in 1..Len(s) : i # j => s[i] # s[j] } }
    \cup { UnionInput }

\* Iterator::any over the fields of a struct
FieldsAny(fields, P(_)) == \E i \in 1..Len(fields) : P(fields[i])

\* ------------------------------------------------------------ type_checks
first_segment(ty) == ty.segments[1]

\* is_uuid_type without the to_lowercase
is_uuid_type_case_sensitive(field) ==
    /\ field.ty.form = "Path"
    /\ contains(first_segment(field.ty), N_uuid)

is_uuid_type(field) ==
    /\ field.ty.form = "Path"
    /\ contains(to_lowercase(first_segment(field.ty)), N_uuid)

IntTypeNames ==
    { <<"u","1","2","8">>, <<"u","6","4">>, <<"u","3","2">>, <<"u","1","6">>,
      <<"u","8">>, <<"i","1","2","8">>, <<"i","6","4">>, <<"i","3","2">>,
      <<"i","1","6">>, <<"i","8">> }

is_int_type(field) ==
    /\ field.ty.form = "Path"
    /\ first_segment(field.ty) \in IntTypeNames

is_timestamp_type(field) ==
    /\ field.ty.form = "Path"
    /\ first_segment(field.ty) = <<"u","6","4">>

\* ------------------------------------------------------------ syn::Error
Ok == [ok |-> TRUE, errors |-> << >>]
Err(msg) == [ok |-> FALSE, errors |-> << msg >>]

\* ------------------------------------------------------------ diagnostics
\* The messages of the syn errors, word by word; the backquotes around a
\* field name are written as apostrophes.
MsgExpectedId == <<"expected", "'id'", "field", "with", "type", "Uuid">>

MsgExpectedVersion ==
    <<"expected", "'version'", "field", "with", "integer", "type.">>

MsgPublicFields ==
    <<"cant", "have", "any", "public", "fields.", "Interior", "mutability",
      "should", "be", "limited", "to", "methods", "only">>

MsgExpectedAggregateId ==
    <<"expected", "'aggregate_id'", "field", "with", "type", "Uuid">>

MsgExpectedOccurred ==
    <<"expected", "'occurred'", "field", "with", "type", "i64">>

MsgExpectedValue ==
    <<"expected", "a", "struct", "with", "a", "single", "field", "named",
      "'value'.">>

MsgExpectedEnum ==
    <<"expected", "data", "structure", "to", "be", "an", "enum">>

MsgGettersForEnum ==
    <<"cannot", "produce", "getters", "for", "an", "enum">>

\* ----------------------------------------------------------------- entity
entity_is_public(field) == field.vis = "Public"

entity_has_public_field(input) ==
    /\ input.data = "Struct"
    /\ FieldsAny(input.fields, entity_is_public)

\* entity_has_id_field without the test of the type
entity_has_id_field_any_type(input) ==
    /\ input.data = "Struct"
    /\ FieldsAny(input.fields, LAMBDA f : f.ident = N_id)

entity_has_id_field(input) ==
    /\ input.data = "Struct"
    /\ FieldsAny(input.fields, LAMBDA f : f.ident = N_id /\ is_uuid_type(f))

entity_has_version_field(input) ==
    /\ input.data = "Struct"
    /\ FieldsAny(input.fields,
                 LAMBDA f : f.ident = N_version /\ is_int_type(f))

entity_check_id_field(input) ==
    IF ~entity_has_id_field(input) THEN Err(MsgExpectedId) ELSE Ok

entity_check_version_field(input) ==
    IF ~entity_has_version_field(input) THEN Err(MsgExpectedVersion) ELSE Ok

entity_check_public_fields(input) ==
    IF entity_has_public_field(input) THEN Err(MsgPublicFields) ELSE Ok

\* entity_precondition without check_public_fields
entity_precondition_without_public_check(input) ==
    IF ~entity_check_id_field(input).ok THEN entity_check_id_field(input)
    ELSE IF ~entity_check_version_field(input).ok
         THEN entity_check_version_field(input)
    ELSE Ok

\* The '?' operator returns the first Err.
entity_precondition(input) ==
    IF ~entity_check_id_field(input).ok THEN entity_check_id_field(input)
    ELSE IF ~entity_check_version_field(input).ok
         THEN entity_check_version_field(input)
    ELSE IF ~entity_check_public_fields(input).ok
         THEN entity_check_public_fields(input)
    ELSE Ok

\* ----------------------------------------------------------- value_object
value_object_has_one_field(input) ==
    /\ input.data = "Struct"
    /\ Len(input.fields) = 1

value_object_has_value_field(input) ==
    /\ input.data = "Struct"
    /\ FieldsAny(input.fields, LAMBDA f : f.ident = N_value)

\* check_value_field without has_one_field
value_object_check_value_field_any_count(input) ==
    IF value_object_has_value_field(input) THEN Ok ELSE Err(MsgExpectedValue)

value_object_check_value_field(input) ==
    IF value_object_has_value_field(input) /\ value_object_has_one_field(input)
    THEN Ok
    ELSE Err(MsgExpectedValue)

value_object_precondition(input) ==
    IF ~value_object_check_value_field(input).ok
    THEN value_object_check_value_field(input)
    ELSE Ok

\* Option<Ident>: the first path segment of the first field whose name
\* contains "value".  find(..).unwrap() panics when there is no such field.
value_type_name(input) ==
    IF input.data = "Struct"
    THEN IF ~FieldsAny(input.fields, LAMBDA f : contains(f.ident, N_value))
         THEN [tag |-> "Panic"]
         ELSE LET i == CHOOSE i \in 1..Len(input.fields) :
                          /\ contains(input.fields[i].ident, N_value)
                          /\ \A j \in 1..(i - 1) :
                                 ~contains(input.fields[j].ident, N_value)
                  ty == input.fields[i].ty
              IN  IF ty.form = "Path"
                  THEN [tag |-> "Some", ident |-> first_segment(ty)]
                  ELSE [tag |-> "None"]
    ELSE [tag |-> "None"]

\* ----------------------------------------------------------- domain_event
domain_event_has_id_field(input) ==
    /\ input.data = "Struct"
    /\ FieldsAny(input.fields, LAMBDA f : f.ident = N_id)

domain_event_has_aggregate_id_field(input) ==
    /\ input.data = "Struct"
    /\ FieldsAny(input.fields,
                 LAMBDA f : f.ident = N_aggregate_id /\ is_uuid_type(f))

domain_event_has_occurred_field(input) ==
    /\ input.data = "Struct"
    /\ FieldsAny(input.fields,
                 LAMBDA f : f.ident = N_occurred /\ is_timestamp_type(f))

domain_event_has_version_field(input) ==
    /\ input.data = "Struct"
    /\ FieldsAny(input.fields,
                 LAMBDA f : f.ident = N_version /\ is_int_type(f))

domain_event_check_id_field(input) ==
    IF ~domain_event_has_id_field(input) THEN Err(MsgExpectedId) ELSE Ok

\* The code tests has_id_field here, not has_aggregate_id_field.
domain_event_check_aggregate_id_field(input) ==
    IF ~domain_event_has_id_field(input)
    THEN Err(MsgExpectedAggregateId)
    ELSE Ok

\* The code tests has_id_field here, not has_occurred_field.
domain_event_check_occurred_field(input) ==
    IF ~domain_event_has_id_field(input) THEN Err(MsgExpectedOccurred) ELSE Ok

domain_event_check_version_field(input) ==
    IF ~domain_event_has_version_field(input)
    THEN Err(MsgExpectedVersion)
    ELSE Ok

domain_event_precondition(input) ==
    IF ~domain_event_check_id_field(input).ok
    THEN domain_event_check_id_field(input)
    ELSE IF ~domain_event_check_aggregate_id_field(input).ok
         THEN domain_event_check_aggregate_id_field(input)
    ELSE IF ~domain_event_check_occurred_field(input).ok
         THEN domain_event_check_occurred_field(input)
    ELSE IF ~domain_event_check_version_field(input).ok
         THEN domain_event_check_version_field(input)
    ELSE Ok

\* ---------------------------------------------------------- domain_events
\* is_enum that also takes a struct
domain_events_is_enum_or_struct(input) == input.data \in {"Enum", "Struct"}

domain_events_is_enum(input) == input.data = "Enum"

domain_events_check_if_enum(input) ==
    IF ~domain_events_is_enum(input) THEN Err(MsgExpectedEnum) ELSE Ok

domain_events_precondition(input) ==
    IF ~domain_events_check_if_enum(input).ok
    THEN domain_events_check_if_enum(input)
    ELSE Ok

\* create_inner_match_for_getter whose aggregate_id arms call id()
create_inner_match_for_getter_wrong_func(input, func_name) ==
    IF input.data # "Enum" THEN [op |-> "abort"]
    ELSE [op |-> "match",
          arms |-> [i \in 1..Len(input.variants) |->
                      [parent |-> input.ident,
                       name |-> input.variants[i],
                       func |-> IF func_name = "aggregate_id" THEN "id"
                                ELSE func_name]],
          wildcard |-> FALSE]

\* create_inner_match_for_getter that covers the last variant by a wildcard
create_inner_match_for_getter_with_wildcard(input, func_name) ==
    IF input.data # "Enum" THEN [op |-> "abort"]
    ELSE [op |-> "match",
          arms |-> [i \in 1..(Len(input.variants) - 1) |->
                      [parent |-> input.ident,
                       name |-> input.variants[i],
                       func |-> func_name]],
          wildcard |-> Len(input.variants) > 0]

\* One arm '#parent::#name(child) => child.#func(),' per variant, in order;
\* the match has no wildcard arm.  On a non-enum the function aborts.
create_inner_match_for_getter(input, func_name) ==
    IF input.data # "Enum" THEN [op |-> "abort"]
    ELSE [op |-> "match",
          arms |-> [i \in 1..Len(input.variants) |->
                      [parent |-> input.ident,
                       name |-> input.variants[i],
                       func |-> func_name]],
          wildcard |-> FALSE]

\* value_object::error_name_from_type: format!("{}ValidationError", name_str)
error_name_from_type(type_name) ==
    type_name \o <<"V","a","l","i","d","a","t","i","o","n","E","r","r","o","r">>

\* --------------------------------------------------------- emitted code
\* type Error = crate::Error; in the emitted TryFrom
CrateError == << <<"c","r","a","t","e">>, <<"E","r","r","o","r">> >>

\* Bodies of emitted methods, as expressions over self.
FieldBody(f) == [op |-> "field", field |-> f]
RefFieldBody(f) == [op |-> "ref_field", field |-> f]
ToStringBody(f) == [op |-> "to_string", field |-> f]
CloneBody(f) == [op |-> "clone", field |-> f]
AsU64Body(f) == [op |-> "as_u64", field |-> f]
EqBody(f) == [op |-> "eq", field |-> f]

NoCode ==
    [kind |-> "none", impls |-> {}, methods |-> << >>, getters |-> << >>,
     try_from_type |-> << >>, error_type |-> << >>]

NoPanic == [message |-> "", errors |-> << >>]

\* Result::expect on an Err panics with the message and the error.
ExpectPanic(message, result) == [message |-> message, errors |-> result.errors]

\* implement_getter with every attribute of the field copied
implement_getter_all_attrs(field) ==
    [docs |-> field.attrs,
     name |-> field.ident,
     ty |-> field.ty,
     body |-> RefFieldBody(field.ident)]

\* entity::implement_getter: the doc attributes of the field, then
\* #[inline(always)] pub fn #field_name(&self) -> &#ty { &self.#field_name }
implement_getter(field) ==
    [docs |-> SelectSeq(field.attrs, LAMBDA a : a.path = "doc"),
     name |-> field.ident,
     ty |-> field.ty,
     body |-> RefFieldBody(field.ident)]

\* produce_getters without the filter on id and version
produce_getters_unfiltered(input) ==
    IF input.data = "Struct"
    THEN [ok |-> TRUE, errors |-> << >>,
          getters |->
            [i \in 1..Len(input.fields) |-> implement_getter(input.fields[i])]]
    ELSE [ok |-> FALSE, errors |-> << MsgGettersForEnum >>, getters |-> << >>]

\* entity::produce_getters
produce_getters(input) ==
    IF input.data = "Struct"
    THEN [ok |-> TRUE, errors |-> << >>,
          getters |->
            LET kept == SelectSeq(input.fields,
                           LAMBDA f : f.ident # N_id /\ f.ident # N_version)
            IN  [i \in 1..Len(kept) |-> implement_getter(kept[i])]]
    ELSE [ok |-> FALSE, errors |-> << MsgGettersForEnum >>, getters |-> << >>]

\* The Entity methods with an equality that compares version
EntityMethods_eq_on_version ==
    [m \in {"id", "eq"} |->
        IF m = "id" THEN ToStringBody(N_id) ELSE EqBody(N_version)]

\* impl Entity { fn id } and impl PartialEq { fn eq } of entity_derive
EntityMethods ==
    [m \in {"id", "eq"} |->
        IF m = "id" THEN ToStringBody(N_id) ELSE EqBody(N_id)]

DomainEventMethods ==
    [m \in {"occurred", "id", "aggregate_id", "version"} |->
        CASE m = "occurred" -> FieldBody(N_occurred)
          [] m = "id" -> ToStringBody(N_id)
          [] m = "aggregate_id" -> CloneBody(N_aggregate_id)
          [] m = "version" -> AsU64Body(N_version)]

ValueSetupMethods ==
    [m \in {"fmt", "eq", "clone", "try_from"} |->
        CASE m = "fmt" -> FieldBody(N_value)
          [] m = "eq" -> EqBody(N_value)
          [] m = "clone" -> CloneBody(N_value)
          [] m = "try_from" -> [op |-> "validate_then_wrap", field |-> N_value]]

AccessorNames == {"occurred", "id", "aggregate_id", "version"}

DomainEventsMethods(input) ==
    [m \in AccessorNames |-> create_inner_match_for_getter(input, m)]

\* --------------------------------------------------------- runtime values
\* A value is its type and a number; a String is numbered by its content.
Val(t, v) == [t |-> t, v |-> v]

\* u64 arithmetic is modelled modulo 2^8 in place of 2^64.
U64Modulus == 256

\* The numbers of the Strings that are renderings of Uuids start here.
UuidStringBase == 100

\* Uuid::to_string: the rendering of a Uuid, a String of its own per Uuid
uuid_to_string(x) == Val("String", UuidStringBase + x.v)

\* ToString::to_string: a String renders as itself, a Uuid as its rendering
to_string(x) == IF x.t = "String" THEN x ELSE uuid_to_string(x)

\* 'as u64'
as_u64(x) == Val("u64", x.v % U64Modulus)

\* Evaluation of an emitted method body on an instance (a function from
\* field names to values).
EvalBody(body, self) ==
    CASE body.op = "field" -> self[body.field]
      [] body.op = "ref_field" -> self[body.field]
      [] body.op = "clone" -> self[body.field]
      [] body.op = "to_string" -> to_string(self[body.field])
      [] body.op = "as_u64" -> as_u64(self[body.field])

\* Instances of the event structs that derive DomainEvent.
EventInstance(id, aggregate_id, occurred, version) ==
    [n \in {N_id, N_aggregate_id, N_occurred, N_version} |->
        CASE n = N_id -> Val("Uuid", id)
          [] n = N_aggregate_id -> Val("String", aggregate_id)
          [] n = N_occurred -> Val("i64", occurred)
          [] n = N_version -> Val("u64", version)]

Payloads == { EventInstance(1, 11, 120, 1), EventInstance(2, 12, 121, 2) }

\* A call of a DomainEvent method on a payload that derives DomainEvent.
CallDomainEventMethod(payload, func) ==
    EvalBody(DomainEventMethods[func], payload)

NoMatch == Val("no arm matches", 0)

\* match self { arms }: the first arm whose pattern is the variant of self
\* runs; its body calls child.func().
eval_match(body, self) ==
    LET hits == { i \in 1..Len(body.arms) : body.arms[i].name = self.variant }
    IN  IF hits = {} THEN NoMatch
        ELSE LET first == CHOOSE i \in hits : \A j \in hits : i <= j
             IN  CallDomainEventMethod(self.payload, body.arms[first].func)

\* The values handed to the constructor a ValueSetup type gets.
RawValues == { Val("String", 0), Val("String", 1), Val("String", 2) }

ValidationError == Val("Error", 0)

\* The user's ValueObject::validate, given as the set of values it accepts.
validate(accepted, value) ==
    IF value \in accepted THEN Ok ELSE Err(<<"EmailValidationError">>)

\* try_from without the call of validate
try_from_unchecked(accepted, value) == [tag |-> "Ok", value |-> value]

\* The emitted TryFrom::try_from: Self::validate(&value)?; Ok(#name { value })
try_from(accepted, value) ==
    IF ~validate(accepted, value).ok
    THEN [tag |-> "Err", value |-> ValidationError]
    ELSE [tag |-> "Ok", value |-> value]

\* The user's ValueObject::value on the instance inside an Ok.
value_of(result) == result.value

\* The name of a declared type, as the tag of its values.
TypeTagOf(ty) ==
    CASE ty = T_Uuid -> "Uuid"
      [] ty = T_uuid_Uuid -> "Uuid"
      [] ty = T_String -> "String"
      [] ty = T_std_string_String -> "String"
      [] ty = T_u64 -> "u64"
      [] ty = T_i64 -> "i64"
      [] ty = T_i32 -> "i32"
      [] OTHER -> "&str"

\* The content of a field apart from id and version: a number of its own
\* per field name, so that no two fields of an instance hold the same.
FieldBase(n) ==
    CASE n = N_aggregate_id -> 10
      [] n = N_occurred -> 20
      [] n = N_value -> 30
      [] OTHER -> 40

\* An instance of the declared struct: a value for each declared field.
InstanceOf(in, i, w) ==
    LET idx(n) == CHOOSE k \in 1..Len(in.fields) : in.fields[k].ident = n
    IN  [n \in { in.fields[k].ident : k \in 1..Len(in.fields) } |->
            Val(TypeTagOf(in.fields[idx(n)].ty),
                IF n = N_id THEN i
                ELSE IF n = N_version THEN w
                ELSE FieldBase(n) + w)]

InstanceIds == {1, 2}
InstanceContents == {0, 1}

Instances(in) ==
    { InstanceOf(in, i, w) : i \in InstanceIds, w \in InstanceContents }

Bool(b) == Val("bool", IF b THEN 1 ELSE 0)

\* The emitted PartialEq::eq: self.#field == other.#field
eval_eq(body, self, other) == Bool(self[body.field] = other[body.field])

\* ------------------------------------------------------------- repository
\* Option<T>
NoneOption == [tag |-> "None", value |-> Val("()", 0)]
SomeOption(x) == [tag |-> "Some", value |-> x]

\* NaiveUser of the integration tests, with one of its name fields.
NaiveUser(id, version, first_name) ==
    [id |-> Val("Uuid", id), version |-> Val("u64", version),
     first_name |-> Val("String", first_name)]

NaiveUsers ==
    { NaiveUser(i, v, n) : i \in 1..MaxUsers, v \in {0, 1}, n \in {0, 1} }

\* The Entity::id emitted for NaiveUser: self.id.to_string()
NaiveUser_id(entity) == to_string(entity.id)

\* The keys the tests look up: the ids of the users.
Keys == { to_string(Val("Uuid", i)) : i \in 1..MaxUsers }

\* HashMap::insert
HashMap_insert(map, key, value) ==
    [k \in DOMAIN map \cup {key} |-> IF k = key THEN value ELSE map[k]]

\* HashMap::remove
HashMap_remove(map, key) == [k \in DOMAIN map \ {key} |-> map[k]]

\* MockUserRepository::get
MockUserRepository_get(map, key) ==
    IF key \in DOMAIN map THEN SomeOption(map[key]) ELSE NoneOption

\* Repository::contains_key: Ok(self.get(key)?.is_some())
Repository_contains_key(map, key) ==
    MockUserRepository_get(map, key).tag = "Some"

\* insert as HashMap::insert alone, whether or not the key is stored
MockUserRepository_insert_overwriting(map, entity) ==
    LET key == NaiveUser_id(entity)
    IN  IF Repository_contains_key(map, key)
        THEN [data |-> HashMap_insert(map, NaiveUser_id(entity), entity),
              ret |-> NoneOption]
        ELSE [data |-> HashMap_insert(map, NaiveUser_id(entity), entity),
              ret |-> SomeOption(key)]

\* MockUserRepository::insert
MockUserRepository_insert(map, entity) ==
    LET key == NaiveUser_id(entity)
    IN  IF Repository_contains_key(map, key)
        THEN [data |-> map, ret |-> NoneOption]
        ELSE [data |-> HashMap_insert(map, NaiveUser_id(entity), entity),
              ret |-> SomeOption(key)]

\* update as HashMap::insert alone, whether or not the key is stored
MockUserRepository_update_upserting(map, entity) ==
    LET key == NaiveUser_id(entity)
    IN  [data |-> HashMap_insert(map, NaiveUser_id(entity), entity),
         ret |-> IF Repository_contains_key(map, key)
                 THEN SomeOption(key) ELSE NoneOption]

\* MockUserRepository::update
MockUserRepository_update(map, entity) ==
    LET key == NaiveUser_id(entity)
    IN  IF Repository_contains_key(map, key)
        THEN [data |-> HashMap_insert(map, NaiveUser_id(entity), entity),
              ret |-> SomeOption(key)]
        ELSE [data |-> map, ret |-> NoneOption]

\* remove that reads the entry and leaves it in the map
MockUserRepository_remove_keeping(map, key) ==
    [data |-> map,
     ret |-> IF key \in DOMAIN map THEN SomeOption(map[key]) ELSE NoneOption]

\* MockUserRepository::remove
MockUserRepository_remove(map, key) ==
    [data |-> HashMap_remove(map, key),
     ret |-> IF key \in DOMAIN map THEN SomeOption(map[key]) ELSE NoneOption]

\* usize arithmetic is modelled modulo 2^2 in place of 2^64.
UsizeModulus == 4

\* The builds: overflow checks on (debug) or off (release).
Builds == { "debug", "release" }

OkVec(v) == [tag |-> "Ok", value |-> v]
PanicVec == [tag |-> "Panic", value |-> << >>]

\* HashMap::iter: the entries in an order of the map's own choosing.
HashMap_iter_orders(map) ==
    { order \in [1..Cardinality(DOMAIN map) -> DOMAIN map] :
        \A i, j \in 1..Cardinality(DOMAIN map) : i # j => order[i] # order[j] }

\* MockUserRepository::get_paged on the collection in iteration order; an
\* arithmetic overflow panics in a debug build and wraps in a release
\* build, and a slice whose start is past its end panics.
MockUserRepository_get_paged(entire_collection, page_num, page_size, build) ==
    LET len == Len(entire_collection)
        sub == page_num - 1
        mul == (sub % UsizeModulus) * page_size
        start == mul % UsizeModulus
        add == start + page_size
        wrapped_add == add % UsizeModulus
        end == IF wrapped_add > len THEN len ELSE wrapped_add
    IN  IF build = "debug" /\ (sub < 0 \/ mul >= UsizeModulus)
        THEN PanicVec
        ELSE IF start > len
        THEN OkVec(<< >>)
        ELSE IF build = "debug" /\ add >= UsizeModulus
        THEN PanicVec
        ELSE IF start > end
        THEN PanicVec
        ELSE OkVec(SubSeq(entire_collection, start + 1, end))

\* -------------------------------------------------------------- aggregate
\* The strings Email::validate accepts, of the strings the model draws from.
ValidEmails == { Val("String", 0), Val("String", 1) }

\* NaiveUser as an aggregate root: id, version, first_name and email.
AggregateUser(id, version, first_name, email) ==
    [id |-> id, version |-> version, first_name |-> first_name,
     email |-> email]

\* impl AggregateRoot for NaiveUser: self.version as u64
AggregateRoot_version(self) == as_u64(self.version)

\* AggregateRoot::next_version: self.version() + 1
AggregateRoot_next_version(self) ==
    Val("u64", AggregateRoot_version(self).v + 1)

\* NaiveUser::new
NaiveUser_new(user_id, first_name, email) ==
    LET r == try_from(ValidEmails, email)
    IN  IF r.tag = "Err" THEN [tag |-> "Err", self |-> r.value]
        ELSE [tag |-> "Ok",
              self |-> AggregateUser(user_id, Val("u64", 0), first_name,
                                     value_of(r))]

\* NaiveUser::change_fname
NaiveUser_change_fname(self, new_fname) ==
    LET named == [self EXCEPT !.first_name = new_fname]
    IN  [named EXCEPT !.version = AggregateRoot_next_version(named)]

\* change_email that takes the next version before it validates
NaiveUser_change_email_version_first(self, new_email) ==
    LET r == try_from(ValidEmails, new_email)
        next == [self EXCEPT !.version = AggregateRoot_next_version(self)]
    IN  IF r.tag = "Err" THEN [tag |-> "Err", self |-> next]
        ELSE [tag |-> "Ok", self |-> [next EXCEPT !.email = value_of(r)]]

\* NaiveUser::change_email: the ? returns before anything is assigned.
NaiveUser_change_email(self, new_email) ==
    LET r == try_from(ValidEmails, new_email)
    IN  IF r.tag = "Err" THEN [tag |-> "Err", self |-> self]
        ELSE LET mailed == [self EXCEPT !.email = value_of(r)]
             IN  [tag |-> "Ok",
                  self |-> [mailed EXCEPT
                              !.version = AggregateRoot_next_version(mailed)]]

\* ------------------------------------------------------------ event store
AggregateIds == {11, 12}
EventVersions == {1, 2}

\* UserEvents: an enum value whose payload derives DomainEvent.
UserEvent(id, aggregate_id, version) ==
    [variant |-> "FirstNameUpdated",
     payload |-> EventInstance(id, aggregate_id, 120, version)]

UserEvents ==
    { UserEvent(i, a, v) :
        i \in 1..MaxEvents, a \in AggregateIds, v \in EventVersions }

\* impl From<&UserEvents> for UserEventRecord
UserEventRecord_from(event) ==
    [id |-> CallDomainEventMethod(event.payload, "id"),
     aggregate_id |-> CallDomainEventMethod(event.payload, "aggregate_id"),
     version |-> CallDomainEventMethod(event.payload, "version"),
     event_data |-> event]

EventIds == { UserEventRecord_from(e).id : e \in UserEvents }
EventAggregateIds == { UserEventRecord_from(e).aggregate_id : e \in UserEvents }

\* The least of a non-empty set of numbers.
First(S) == CHOOSE i \in S : \A j \in S : i <= j

\* get that looks into the first list of the map only
UserEventRepository_get_first_list(map, event_id, order) ==
    LET hits(k) == { i \in 1..Len(map[k]) : map[k][i].id = event_id }
    IN  IF order = << >> \/ hits(order[1]) = {} THEN NoneOption
        ELSE SomeOption(map[order[1]][First(hits(order[1]))].event_data)

\* UserEventRepository::get: store.iter().find_map(records.iter().find(..));
\* order is the order in which the map hands out its keys.
UserEventRepository_get(map, event_id, order) ==
    LET hits(k) == { i \in 1..Len(map[k]) : map[k][i].id = event_id }
        found == { j \in 1..Len(order) : hits(order[j]) # {} }
    IN  IF found = {} THEN NoneOption
        ELSE LET k == order[First(found)]
             IN  SomeOption(map[k][First(hits(k))].event_data)

\* EventRepository::contains_event: self.get(event_id).is_some()
EventRepository_contains_event(map, event_id, order) ==
    UserEventRepository_get(map, event_id, order).tag = "Some"

\* UserEventRepository::contains_aggregate
UserEventRepository_contains_aggregate(map, aggregate_id) ==
    aggregate_id \in DOMAIN map

\* insert that starts the list of the aggregate anew
UserEventRepository_insert_replacing(map, event, order) ==
    LET ev_record == UserEventRecord_from(event)
    IN  IF EventRepository_contains_event(map, ev_record.id, order)
        THEN [store |-> map, ret |-> NoneOption]
        ELSE [store |-> HashMap_insert(map, ev_record.aggregate_id,
                                       << ev_record >>),
              ret |-> SomeOption(event)]

\* UserEventRepository::insert
UserEventRepository_insert(map, event, order) ==
    LET ev_record == UserEventRecord_from(event)
    IN  IF EventRepository_contains_event(map, ev_record.id, order)
        THEN [store |-> map, ret |-> NoneOption]
        ELSE IF UserEventRepository_contains_aggregate(map,
                                                       ev_record.aggregate_id)
        THEN [store |-> [map EXCEPT ![ev_record.aggregate_id] =
                                        Append(@, ev_record)],
              ret |-> SomeOption(event)]
        ELSE [store |-> HashMap_insert(map, ev_record.aggregate_id,
                                       << ev_record >>),
              ret |-> SomeOption(event)]

\* UserEventRepository::events_by_aggregate
UserEventRepository_events_by_aggregate(map, aggregate_id) ==
    IF aggregate_id \in DOMAIN map
    THEN SomeOption([i \in 1..Len(map[aggregate_id]) |->
                        map[aggregate_id][i].event_data])
    ELSE NoneOption

\* slice::sort_by(|a, b| a.version.cmp(&b.version)): a stable sort
sort_by_version(records) ==
    LET rank(i) ==
            Cardinality({ j \in 1..Len(records) :
                            \/ records[j].version.v < records[i].version.v
                            \/ /\ records[j].version.v = records[i].version.v
                               /\ j <= i })
    IN  [r \in 1..Len(records) |->
            records[CHOOSE i \in 1..Len(records) : rank(i) = r]]

\* UserEventRepository::records_to_events
records_to_events(records) ==
    [i \in 1..Len(records) |-> records[i].event_data]

\* UserEventRepository::events_since_version
UserEventRepository_events_since_version(map, aggregate_id, version) ==
    IF aggregate_id \in DOMAIN map
    THEN SomeOption(records_to_events(sort_by_version(
            SelectSeq(map[aggregate_id], LAMBDA e : e.version.v > version))))
    ELSE NoneOption

\* UserEventRepository::num_events_since_version; version + num_events is
\* computed for the records with e.version > version, and its overflow
\* panics in a debug build and wraps in a release build.
UserEventRepository_num_events_since_version(map, aggregate_id, version, num_events, build) ==
    IF aggregate_id \in DOMAIN map
    THEN LET records == map[aggregate_id]
             sum == version + num_events
             summed == \E i \in 1..Len(records) : records[i].version.v > version
         IN  IF build = "debug" /\ summed /\ sum >= U64Modulus
             THEN [tag |-> "Panic", value |-> << >>]
             ELSE SomeOption(records_to_events(sort_by_version(
                     SelectSeq(records,
                               LAMBDA e : /\ e.version.v > version
                                          /\ e.version.v <= sum % U64Modulus))))
    ELSE NoneOption

\* --------------------------------------------------------- type names
NameChars == { "u", "U", "i", "d", "6", "4" }

NamedTypeNames ==
    { <<"u","u","i","d">>, <<"U","u","i","d">>, <<"U","U","I","D">>,
      <<"M","y","U","u","i","d">>, <<"u","u","i","d","s">>,
      <<"G","u","i","d">>, <<"u","8">>, <<"u","1","6">>, <<"u","3","2">>,
      <<"u","6","4">>, <<"u","1","2","8">>, <<"i","8">>, <<"i","1","6">>,
      <<"i","3","2">>, <<"i","6","4">>, <<"i","1","2","8">>,
      <<"u","s","i","z","e">>, <<"i","s","i","z","e">>, <<"f","6","4">>,
      <<"U","6","4">>, <<"u","6","4","0">>, <<"S","t","r","i","n","g">> }

\* The type names handed to the type checks.
TypeNames ==
    NamedTypeNames \cup UNION { [1..k -> NameChars] : k \in 1..MaxNameLen }

\* ------------------------------------------------------------------ state
VARIABLES
    directive,   \* the derive macro of the last invocation
    input,       \* the DeriveInput it was given
    outcome,     \* "none", "code" (a TokenStream is returned) or "panic"
    panic,       \* the panic message and the syn errors it carries
    emitted,     \* the code returned to the compiler
    accepted,    \* the values the user's validate accepts (ValueSetup)
    call,        \* the last call of emitted code and what it returned
    alone,       \* the first invocation, made with nothing before it
    ty_name,     \* the type name handed to the type checks
    ty_class,    \* what is_uuid_type, is_int_type, is_timestamp_type said
    data,        \* MockUserRepository.data
    repo_call,   \* the last call on the repository and what it returned
    store,       \* UserEventRepository.store
    event_call,  \* the last call on the event store and what it returned
    user,        \* the NaiveUser aggregate
    mutations,   \* the successful mutations of the aggregate so far
    agg_call,    \* the last call on the aggregate and what it returned
    cast_call    \* the last call of an emitted version() and what it returned

derive_vars == <<directive, input, outcome, panic, emitted, accepted, call>>
classify_vars == <<ty_name, ty_class>>
repo_vars == <<data, repo_call>>
event_vars == <<store, event_call>>
aggregate_vars == <<user, mutations, agg_call>>
cast_vars == <<cast_call>>

\* The variables of the event store, the aggregate and the version call.
rest_vars == <<event_vars, aggregate_vars, cast_vars>>

vars == <<derive_vars, alone, classify_vars, repo_vars, rest_vars>>

NoInput == [ident |-> << >>, data |-> "None", fields |-> << >>, variants |-> << >>]

NoCall == [fn |-> "none", arg |-> Val("()", 0), ret |-> Val("()", 0)]

\* No invocation has been made alone yet.
NoAlone ==
    [directive |-> "None", input |-> NoInput, outcome |-> "none",
     panic |-> NoPanic, emitted |-> NoCode, others |-> FALSE]

\* No type name has been handed to the type checks.
NoClass == [done |-> FALSE, uuid |-> FALSE, int |-> FALSE, timestamp |-> FALSE]

NoRepoCall ==
    [op |-> "none", arg |-> Val("()", 0), ret |-> NoneOption, before |-> << >>]

NoEventCall ==
    [op |-> "none", arg |-> Val("()", 0), ret |-> NoneOption, before |-> << >>]

\* No NaiveUser has been constructed.
NoUser ==
    [id |-> Val("()", 0), version |-> Val("()", 0),
     first_name |-> Val("()", 0), email |-> Val("()", 0)]

NoAggCall == [op |-> "none", ret |-> "Ok", before |-> NoUser]

NoCastCall == [done |-> FALSE, arg |-> Val("()", 0), ret |-> Val("()", 0)]

Init ==
    /\ directive = "None"
    /\ input = NoInput
    /\ outcome = "none"
    /\ panic = NoPanic
    /\ emitted = NoCode
    /\ accepted = {}
    /\ call = NoCall
    /\ alone = NoAlone
    /\ ty_name = << >>
    /\ ty_class = NoClass
    /\ data = << >>
    /\ repo_call = NoRepoCall
    /\ store = << >>
    /\ event_call = NoEventCall
    /\ user = NoUser
    /\ mutations = 0
    /\ agg_call = NoAggCall
    /\ cast_call = NoCastCall

\* The invocation panics: compilation halts and no code is returned.
Panics(d, in, p) ==
    /\ directive' = d
    /\ input' = in
    /\ outcome' = "panic"
    /\ panic' = p
    /\ emitted' = NoCode
    /\ accepted' = {}
    /\ call' = NoCall

\* The invocation returns code.
Emits(d, in, code, acc) ==
    /\ directive' = d
    /\ input' = in
    /\ outcome' = "code"
    /\ panic' = NoPanic
    /\ emitted' = code
    /\ accepted' = acc
    /\ call' = NoCall

\* entity_derive with the getters kept in a Vec that outlives the invocation
entity_derive_keeping_getters(in) ==
    /\ LET pre == entity_precondition(in)
           getters == produce_getters(in)
       IN  IF ~pre.ok
           THEN Panics("Entity", in,
                       ExpectPanic("Entity procedural macro failed preconditions",
                                   pre))
           ELSE IF ~getters.ok
           THEN Panics("Entity", in,
                       ExpectPanic("Entity macro failed to produce getters",
                                   getters))
           ELSE Emits("Entity", in,
                      [kind |-> "Entity", impls |-> {"Entity", "PartialEq"},
                       methods |-> EntityMethods,
                       getters |-> emitted.getters \o getters.getters,
                       try_from_type |-> << >>, error_type |-> << >>],
                      {})

\* #[proc_macro_derive(Entity)]
entity_derive(in) ==
    /\ LET pre == entity_precondition(in)
           getters == produce_getters(in)
       IN  IF ~pre.ok
           THEN Panics("Entity", in,
                       ExpectPanic("Entity procedural macro failed preconditions",
                                   pre))
           ELSE IF ~getters.ok
           THEN Panics("Entity", in,
                       ExpectPanic("Entity macro failed to produce getters",
                                   getters))
           ELSE Emits("Entity", in,
                      [kind |-> "Entity", impls |-> {"Entity", "PartialEq"},
                       methods |-> EntityMethods, getters |-> getters.getters,
                       try_from_type |-> << >>, error_type |-> << >>],
                      {})

\* #[proc_macro_derive(ValueSetup)]
value_object_derive(in) ==
    /\ LET pre == value_object_precondition(in)
           type_name == value_type_name(in)
       IN  IF ~pre.ok
           THEN Panics("ValueSetup", in,
                       ExpectPanic("ValueSetup macro failed preconditions", pre))
           ELSE IF type_name.tag # "Some"
           THEN Panics("ValueSetup", in,
                       [message |-> "called Option::unwrap() on a None value",
                        errors |-> << >>])
           ELSE \E acc \in SUBSET RawValues :
                   Emits("ValueSetup", in,
                         [kind |-> "ValueSetup",
                          impls |-> {"Display", "PartialEq", "Clone", "TryFrom"},
                          methods |-> ValueSetupMethods, getters |-> << >>,
                          try_from_type |-> type_name.ident,
                          error_type |-> CrateError],
                         acc)

\* #[proc_macro_derive(DomainEvent)]
domain_event_derive(in) ==
    /\ LET pre == domain_event_precondition(in)
       IN  IF ~pre.ok
           THEN Panics("DomainEvent", in,
                       ExpectPanic("DomainEvent macro failed preconditions", pre))
           ELSE Emits("DomainEvent", in,
                      [kind |-> "DomainEvent", impls |-> {"DomainEvent", "Message"},
                       methods |-> DomainEventMethods, getters |-> << >>,
                       try_from_type |-> << >>, error_type |-> << >>],
                      {})

\* #[proc_macro_derive(DomainEvents)]
domain_events_derive(in) ==
    /\ LET pre == domain_events_precondition(in)
           methods == DomainEventsMethods(in)
       IN  IF ~pre.ok
           THEN Panics("DomainEvents", in,
                       ExpectPanic("DomainEvents macro failed preconditions", pre))
           ELSE IF \E m \in AccessorNames : methods[m].op = "abort"
           THEN Panics("DomainEvents", in,
                       [message |-> "abort", errors |-> << >>])
           ELSE Emits("DomainEvents", in,
                      [kind |-> "DomainEvents",
                       impls |-> {"DomainEvent", "Message"},
                       methods |-> methods, getters |-> << >>,
                       try_from_type |-> << >>, error_type |-> << >>],
                      {})

\* #[proc_macro_derive(Command)]: no precondition
command_derive(in) ==
    /\ Emits("Command", in,
             [kind |-> "Command", impls |-> {"Command", "Message"},
              methods |-> << >>, getters |-> << >>, try_from_type |-> << >>,
              error_type |-> << >>],
             {})

\* #[proc_macro_derive(Query)]: no precondition
query_derive(in) ==
    /\ Emits("Query", in,
             [kind |-> "Query", impls |-> {"Query", "Query for &"},
              methods |-> << >>, getters |-> << >>, try_from_type |-> << >>,
              error_type |-> << >>],
             {})

\* A call of the emitted try_from of a ValueSetup type.
CallTryFrom(x) ==
    /\ outcome = "code"
    /\ emitted.kind = "ValueSetup"
    /\ call' = [fn |-> "try_from", arg |-> x, ret |-> try_from(accepted, x)]
    /\ UNCHANGED <<directive, input, outcome, panic, emitted, accepted>>

\* A call of an emitted dispatcher on a value of the enum.
CallDispatcher(f, self) ==
    /\ outcome = "code"
    /\ emitted.kind = "DomainEvents"
    /\ \E i \in 1..Len(input.variants) : input.variants[i] = self.variant
    /\ call' = [fn |-> f, arg |-> self, ret |-> eval_match(emitted.methods[f], self)]
    /\ UNCHANGED <<directive, input, outcome, panic, emitted, accepted>>

\* A call of the emitted PartialEq::eq of an Entity on two instances.
CallEntityEq(self, other) ==
    /\ outcome = "code"
    /\ emitted.kind = "Entity"
    /\ call' = [fn |-> "eq", arg |-> [self |-> self, other |-> other],
                ret |-> eval_eq(emitted.methods["eq"], self, other)]
    /\ UNCHANGED <<directive, input, outcome, panic, emitted, accepted>>

\* A call of an emitted method of an Entity or DomainEvent struct on an
\* instance; the method compiles only if the field it reads is declared.
CallMethod(m, self) ==
    /\ outcome = "code"
    /\ emitted.kind \in {"Entity", "DomainEvent"}
    /\ m \in DOMAIN emitted.methods
    /\ m # "eq"
    /\ emitted.methods[m].field \in DOMAIN self
    /\ call' = [fn |-> m, arg |-> self, ret |-> EvalBody(emitted.methods[m], self)]
    /\ UNCHANGED <<directive, input, outcome, panic, emitted, accepted>>

\* A call of the k-th emitted getter of an Entity on an instance.
CallGetter(k, self) ==
    /\ outcome = "code"
    /\ emitted.kind = "Entity"
    /\ k \in 1..Len(emitted.getters)
    /\ call' = [fn |-> "getter", arg |-> [self |-> self, index |-> k],
                ret |-> EvalBody(emitted.getters[k].body, self)]
    /\ UNCHANGED <<directive, input, outcome, panic, emitted, accepted>>

\* The invocation is over: the compiler goes on to the next derive, with
\* nothing kept from this one.
NextInvocation ==
    /\ outcome # "none"
    /\ directive' = "None"
    /\ input' = NoInput
    /\ outcome' = "none"
    /\ panic' = NoPanic
    /\ emitted' = NoCode
    /\ accepted' = {}
    /\ call' = NoCall

EnumValues == [variant : VariantNames, payload : Payloads]

\* The compiler expands a derive only when no invocation is under way.
Idle == outcome = "none"

Next ==
    \/ Idle /\ UNCHANGED <<alone, classify_vars, repo_vars, rest_vars>>
            /\ \E in \in DeriveInputs : entity_derive(in)
    \/ Idle /\ UNCHANGED <<alone, classify_vars, repo_vars, rest_vars>>
            /\ \E in \in DeriveInputs : value_object_derive(in)
    \/ Idle /\ UNCHANGED <<alone, classify_vars, repo_vars, rest_vars>>
            /\ \E in \in DeriveInputs : domain_event_derive(in)
    \/ Idle /\ UNCHANGED <<alone, classify_vars, repo_vars, rest_vars>>
            /\ \E in \in DeriveInputs : domain_events_derive(in)
    \/ Idle /\ UNCHANGED <<alone, classify_vars, repo_vars, rest_vars>>
            /\ \E in \in DeriveInputs : command_derive(in)
    \/ Idle /\ UNCHANGED <<alone, classify_vars, repo_vars, rest_vars>>
            /\ \E in \in DeriveInputs : query_derive(in)
    \/ UNCHANGED <<alone, classify_vars, repo_vars, rest_vars>>
       /\ \E x \in RawValues : CallTryFrom(x)
    \/ UNCHANGED <<alone, classify_vars, repo_vars, rest_vars>>
       /\ \E f \in AccessorNames, self \in EnumValues : CallDispatcher(f, self)
    \/ UNCHANGED <<alone, classify_vars, repo_vars, rest_vars>>
       /\ \E self, other \in Instances(input) : CallEntityEq(self, other)
    \/ UNCHANGED <<alone, classify_vars, repo_vars, rest_vars>>
       /\ \E m \in AccessorNames, self \in Instances(input) : CallMethod(m, self)
    \/ UNCHANGED <<alone, classify_vars, repo_vars, rest_vars>>
       /\ \E k \in 1..MaxFields, self \in Instances(input) : CallGetter(k, self)
    \/ UNCHANGED <<alone, classify_vars, repo_vars, rest_vars>> /\ NextInvocation

Spec == Init /\ [][Next]_vars

\* ------------------------------------------- invocations one after another
\* The declarations of a crate that the derives are pointed at in turn.
IndependentFields ==
    { Fld(N_id, T_Uuid, "Inherited"), Fld(N_version, T_u64, "Inherited"),
      Fld(N_value, T_String, "Inherited"),
      FldA(N_name, T_String, "Inherited",
           <<DocAttr("The name."), OtherAttr("serde"), DocAttr("Not empty.")>>) }

IndependentInputs ==
    { StructInput(fl) :
        fl \in { l \in FieldListsFrom(1) :
                   \A k \in 1..Len(l) : l[k] \in IndependentFields } }
    \cup { EnumInput(<< >>), EnumInput(<<"Deleted">>), UnionInput }

\* The first invocation is kept as it came out; of the later ones it is
\* noted whether any was of another directive or declaration.
Remember ==
    alone' = IF alone.directive = "None"
             THEN [directive |-> directive', input |-> input',
                   outcome |-> outcome', panic |-> panic',
                   emitted |-> emitted', others |-> FALSE]
             ELSE [alone EXCEPT !.others =
                      @ \/ directive' # alone.directive \/ input' # alone.input]

\* The compiler expands the derives of a crate one after another in one
\* process; nothing is reset in between.
NextIndependent ==
    \/ UNCHANGED <<classify_vars, repo_vars, rest_vars>>
       /\ \E in \in IndependentInputs : entity_derive(in) /\ Remember
    \/ UNCHANGED <<classify_vars, repo_vars, rest_vars>>
       /\ \E in \in IndependentInputs : value_object_derive(in) /\ Remember
    \/ UNCHANGED <<classify_vars, repo_vars, rest_vars>>
       /\ \E in \in IndependentInputs : domain_event_derive(in) /\ Remember
    \/ UNCHANGED <<classify_vars, repo_vars, rest_vars>>
       /\ \E in \in IndependentInputs : domain_events_derive(in) /\ Remember
    \/ UNCHANGED <<classify_vars, repo_vars, rest_vars>>
       /\ \E in \in IndependentInputs : command_derive(in) /\ Remember
    \/ UNCHANGED <<classify_vars, repo_vars, rest_vars>>
       /\ \E in \in IndependentInputs : query_derive(in) /\ Remember

SpecIndependent == Init /\ [][NextIndependent]_vars

\* ------------------------------------------------------- event store calls
\* The orders in which the store hands out its keys.
StoreOrders == HashMap_iter_orders(store)

EventInsert(event, order) ==
    /\ LET r == UserEventRepository_insert(store, event, order)
       IN  /\ store' = r.store
           /\ event_call' = [op |-> "insert", arg |-> event, ret |-> r.ret,
                             before |-> store]
    /\ UNCHANGED <<derive_vars, alone, classify_vars, repo_vars,
                   aggregate_vars, cast_vars>>

EventGet(event_id, order) ==
    /\ event_call' = [op |-> "get", arg |-> event_id,
                      ret |-> UserEventRepository_get(store, event_id, order),
                      before |-> store]
    /\ UNCHANGED <<store, derive_vars, alone, classify_vars, repo_vars,
                   aggregate_vars, cast_vars>>

ContainsEvent(event_id, order) ==
    /\ event_call' = [op |-> "contains_event", arg |-> event_id,
                      ret |-> Bool(EventRepository_contains_event(
                                     store, event_id, order)),
                      before |-> store]
    /\ UNCHANGED <<store, derive_vars, alone, classify_vars, repo_vars,
                   aggregate_vars, cast_vars>>

ContainsAggregate(aggregate_id) ==
    /\ event_call' = [op |-> "contains_aggregate", arg |-> aggregate_id,
                      ret |-> Bool(UserEventRepository_contains_aggregate(
                                     store, aggregate_id)),
                      before |-> store]
    /\ UNCHANGED <<store, derive_vars, alone, classify_vars, repo_vars,
                   aggregate_vars, cast_vars>>

EventsByAggregate(aggregate_id) ==
    /\ event_call' = [op |-> "events_by_aggregate", arg |-> aggregate_id,
                      ret |-> UserEventRepository_events_by_aggregate(
                                 store, aggregate_id),
                      before |-> store]
    /\ UNCHANGED <<store, derive_vars, alone, classify_vars, repo_vars,
                   aggregate_vars, cast_vars>>

EventsSinceVersion(aggregate_id, version) ==
    /\ event_call' = [op |-> "events_since_version",
                      arg |-> [aggregate_id |-> aggregate_id,
                               version |-> version],
                      ret |-> UserEventRepository_events_since_version(
                                 store, aggregate_id, version),
                      before |-> store]
    /\ UNCHANGED <<store, derive_vars, alone, classify_vars, repo_vars,
                   aggregate_vars, cast_vars>>

NumEventsSinceVersion(aggregate_id, version, num_events, build) ==
    /\ event_call' = [op |-> "num_events_since_version",
                      arg |-> [aggregate_id |-> aggregate_id,
                               version |-> version,
                               num_events |-> num_events],
                      ret |-> UserEventRepository_num_events_since_version(
                                 store, aggregate_id, version, num_events,
                                 build),
                      before |-> store]
    /\ UNCHANGED <<store, derive_vars, alone, classify_vars, repo_vars,
                   aggregate_vars, cast_vars>>

\* The versions and counts the queries are made with.
QueryVersions == {0, 1, U64Modulus - 1}
QueryCounts == {0, 1, 2}

NextEvents ==
    \/ \E event \in UserEvents, order \in StoreOrders :
          EventInsert(event, order)
    \/ \E event_id \in EventIds, order \in StoreOrders :
          EventGet(event_id, order)
    \/ \E event_id \in EventIds, order \in StoreOrders :
          ContainsEvent(event_id, order)
    \/ \E aggregate_id \in EventAggregateIds : ContainsAggregate(aggregate_id)
    \/ \E aggregate_id \in EventAggregateIds : EventsByAggregate(aggregate_id)
    \/ \E aggregate_id \in EventAggregateIds, version \in QueryVersions :
          EventsSinceVersion(aggregate_id, version)
    \/ \E aggregate_id \in EventAggregateIds, version \in QueryVersions :
          \E num_events \in QueryCounts, build \in Builds :
             NumEventsSinceVersion(aggregate_id, version, num_events, build)

SpecEvents == Init /\ [][NextEvents]_vars

\* -------------------------------------------------------- aggregate calls
NewUser(user_id, first_name, email) ==
    /\ user = NoUser
    /\ LET r == NaiveUser_new(user_id, first_name, email)
       IN  /\ user' = IF r.tag = "Ok" THEN r.self ELSE user
           /\ agg_call' = [op |-> "new", ret |-> r.tag, before |-> user]
    /\ mutations' = 0
    /\ UNCHANGED <<derive_vars, alone, classify_vars, repo_vars, event_vars,
                   cast_vars>>

\* The version stays below U64Modulus: no more than MaxMutations mutations
\* are made.
ChangeFname(new_fname) ==
    /\ user # NoUser
    /\ mutations < MaxMutations
    /\ user' = NaiveUser_change_fname(user, new_fname)
    /\ mutations' = mutations + 1
    /\ agg_call' = [op |-> "change_fname", ret |-> "Ok", before |-> user]
    /\ UNCHANGED <<derive_vars, alone, classify_vars, repo_vars, event_vars,
                   cast_vars>>

ChangeEmail(new_email) ==
    /\ user # NoUser
    /\ mutations < MaxMutations
    /\ LET r == NaiveUser_change_email(user, new_email)
       IN  /\ user' = r.self
           /\ mutations' = IF r.tag = "Ok" THEN mutations + 1 ELSE mutations
           /\ agg_call' = [op |-> "change_email", ret |-> r.tag,
                           before |-> user]
    /\ UNCHANGED <<derive_vars, alone, classify_vars, repo_vars, event_vars,
                   cast_vars>>

NextAggregate ==
    \/ \E user_id \in { Val("Uuid", i) : i \in 1..MaxUsers } :
          \E first_name \in RawValues, email \in RawValues :
             NewUser(user_id, first_name, email)
    \/ \E new_fname \in RawValues : ChangeFname(new_fname)
    \/ \E new_email \in RawValues : ChangeEmail(new_email)

SpecAggregate == Init /\ [][NextAggregate]_vars

\* ---------------------------------------------------------- version calls
\* The widths of the integer types, scaled so that u64 has the
\* U64Modulus values: 2^8 = U64Modulus.
ScaledBits(bits) ==
    CASE bits = 8 -> 2
      [] bits = 16 -> 3
      [] bits = 32 -> 4
      [] bits = 64 -> 8
      [] bits = 128 -> 9

\* The integer types by name, with the tag their values carry.
IntTypes ==
    { [name |-> <<"u","8">>, tag |-> "u8", signed |-> FALSE, bits |-> 8],
      [name |-> <<"u","1","6">>, tag |-> "u16", signed |-> FALSE, bits |-> 16],
      [name |-> <<"u","3","2">>, tag |-> "u32", signed |-> FALSE, bits |-> 32],
      [name |-> <<"u","6","4">>, tag |-> "u64", signed |-> FALSE, bits |-> 64],
      [name |-> <<"u","1","2","8">>, tag |-> "u128", signed |-> FALSE,
       bits |-> 128],
      [name |-> <<"i","8">>, tag |-> "i8", signed |-> TRUE, bits |-> 8],
      [name |-> <<"i","1","6">>, tag |-> "i16", signed |-> TRUE, bits |-> 16],
      [name |-> <<"i","3","2">>, tag |-> "i32", signed |-> TRUE, bits |-> 32],
      [name |-> <<"i","6","4">>, tag |-> "i64", signed |-> TRUE, bits |-> 64],
      [name |-> <<"i","1","2","8">>, tag |-> "i128", signed |-> TRUE,
       bits |-> 128] }

\* The values of an integer type.
IntValues(ty) ==
    IF ty.signed
    THEN -(2 ^ (ScaledBits(ty.bits) - 1)) .. (2 ^ (ScaledBits(ty.bits) - 1)) - 1
    ELSE 0 .. (2 ^ ScaledBits(ty.bits)) - 1

\* version() of an event whose version field has the type ty, accepted by
\* the precondition of DomainEvent, and holds v.
CallVersion(ty, v) ==
    /\ is_int_type(Fld(N_version, PathType(<< ty.name >>), "Inherited"))
    /\ LET self == [EventInstance(1, 11, 120, 0)
                       EXCEPT ![N_version] = Val(ty.tag, v)]
       IN  cast_call' = [done |-> TRUE, arg |-> self[N_version],
                         ret |-> CallDomainEventMethod(self, "version")]
    /\ UNCHANGED <<derive_vars, alone, classify_vars, repo_vars, event_vars,
                   aggregate_vars>>

NextCast == \E ty \in IntTypes : \E v \in IntValues(ty) : CallVersion(ty, v)

SpecCast == Init /\ [][NextCast]_vars

\* ------------------------------------------------------------ type checks
\* The three type checks are applied to a field of the type named n.
Classify(n) ==
    /\ ~ty_class.done
    /\ ty_name' = n
    /\ ty_class' =
         LET field == Fld(N_value, PathType(<< n >>), "Inherited")
         IN  [done |-> TRUE,
              uuid |-> is_uuid_type(field),
              int |-> is_int_type(field),
              timestamp |-> is_timestamp_type(field)]
    /\ UNCHANGED <<derive_vars, alone, repo_vars, rest_vars>>

\* The checks keep nothing: the next name starts afresh.
NextName ==
    /\ ty_class.done
    /\ ty_name' = << >>
    /\ ty_class' = NoClass
    /\ UNCHANGED <<derive_vars, alone, repo_vars, rest_vars>>

NextClassify ==
    \/ \E n \in TypeNames : Classify(n)
    \/ NextName

SpecClassify == Init /\ [][NextClassify]_vars

\* -------------------------------------------------------- repository calls
Insert(entity) ==
    /\ LET r == MockUserRepository_insert(data, entity)
       IN  /\ data' = r.data
           /\ repo_call' = [op |-> "insert", arg |-> entity, ret |-> r.ret,
                            before |-> data]
    /\ UNCHANGED <<derive_vars, alone, classify_vars, rest_vars>>

Get(key) ==
    /\ repo_call' = [op |-> "get", arg |-> key,
                     ret |-> MockUserRepository_get(data, key), before |-> data]
    /\ UNCHANGED <<data, derive_vars, alone, classify_vars, rest_vars>>

ContainsKey(key) ==
    /\ repo_call' = [op |-> "contains_key", arg |-> key,
                     ret |-> Bool(Repository_contains_key(data, key)),
                     before |-> data]
    /\ UNCHANGED <<data, derive_vars, alone, classify_vars, rest_vars>>

Update(entity) ==
    /\ LET r == MockUserRepository_update(data, entity)
       IN  /\ data' = r.data
           /\ repo_call' = [op |-> "update", arg |-> entity, ret |-> r.ret,
                            before |-> data]
    /\ UNCHANGED <<derive_vars, alone, classify_vars, rest_vars>>

Remove(key) ==
    /\ LET r == MockUserRepository_remove(data, key)
       IN  /\ data' = r.data
           /\ repo_call' = [op |-> "remove", arg |-> key, ret |-> r.ret,
                            before |-> data]
    /\ UNCHANGED <<derive_vars, alone, classify_vars, rest_vars>>

GetPaged(page_num, page_size, order, build) ==
    /\ repo_call' = [op |-> "get_paged",
                     arg |-> [page_num |-> page_num, page_size |-> page_size],
                     ret |-> MockUserRepository_get_paged(
                                [i \in 1..Len(order) |-> data[order[i]]],
                                page_num, page_size, build),
                     before |-> data]
    /\ UNCHANGED <<data, derive_vars, alone, classify_vars, rest_vars>>

NextRepo ==
    \/ \E entity \in NaiveUsers : Insert(entity)
    \/ \E key \in Keys : Get(key)
    \/ \E key \in Keys : ContainsKey(key)
    \/ \E entity \in NaiveUsers : Update(entity)
    \/ \E key \in Keys : Remove(key)
    \/ \E page_num, page_size \in 0..(UsizeModulus - 1) :
          \E order \in HashMap_iter_orders(data), build \in Builds :
             GetPaged(page_num, page_size, order, build)

SpecRepo == Init /\ [][NextRepo]_vars

\* ------------------------------------------------------------- properties
\* The classes the specification gives to the types the model draws from
\* (Timestamp is a refinement of Integer).
ClassesOf(ty) ==
    CASE ty = T_Uuid -> {"Identifier"}
      [] ty = T_uuid_Uuid -> {"Identifier"}
      [] ty = T_u64 -> {"Timestamp", "Integer"}
      [] ty = T_i64 -> {"Integer"}
      [] ty = T_i32 -> {"Integer"}
      [] ty = T_String -> {"Other"}
      [] ty = T_std_string_String -> {"Other"}
      [] ty = T_ref_str -> {"Other"}

IsRecord == input.data = "Struct"

HasFieldOfClass(n, class) ==
    \E i \in 1..Len(input.fields) :
        /\ input.fields[i].ident = n
        /\ class \in ClassesOf(input.fields[i].ty)

HasFieldNamed(n) ==
    \E i \in 1..Len(input.fields) : input.fields[i].ident = n

NoPublicField ==
    \A i \in 1..Len(input.fields) : input.fields[i].vis # "Public"

\* The invocation stopped at its precondition.
PreconditionFailed ==
    /\ outcome = "panic"
    /\ panic.message \in
         { "Entity procedural macro failed preconditions",
           "ValueSetup macro failed preconditions",
           "DomainEvent macro failed preconditions",
           "DomainEvents macro failed preconditions" }

\* The diagnostic names the field n.
DiagnosticNames(word) ==
    \E k \in 1..Len(panic.errors) :
        \E w \in 1..Len(panic.errors[k]) : panic.errors[k][w] = word

\* C1: for every record, the Entity precondition succeeds if and only if the
\* record has a field id of class Identifier, a field version of class
\* Integer, and no field of public visibility.
C1_EntityPreconditionIff ==
    (directive = "Entity" /\ IsRecord) =>
        (~PreconditionFailed <=>
            /\ HasFieldOfClass(N_id, "Identifier")
            /\ HasFieldOfClass(N_version, "Integer")
            /\ NoPublicField)

C1_Witness ==
    /\ directive = "Entity"
    /\ IsRecord
    /\ outcome = "code"
    /\ HasFieldNamed(N_name)
    /\ Len(input.fields) = 3

\* C2: for every record with no field id, or whose id is of class Other,
\* Entity validation fails and its diagnostic names id.
C2_MissingIdDiagnostic ==
    (/\ directive = "Entity"
     /\ IsRecord
     /\ ~HasFieldNamed(N_id) \/ HasFieldOfClass(N_id, "Other")) =>
        /\ PreconditionFailed
        /\ emitted = NoCode
        /\ DiagnosticNames("'id'")

C2_Witness ==
    /\ directive = "Entity"
    /\ IsRecord
    /\ HasFieldOfClass(N_id, "Other")
    /\ HasFieldOfClass(N_version, "Integer")
    /\ PreconditionFailed
    /\ DiagnosticNames("'id'")

\* C3: for every record, DomainEvent validation succeeds if and only if the
\* record has id of class Identifier, aggregate_id of class Identifier,
\* occurred of class Timestamp and version of class Integer.
C3_DomainEventPreconditionIff ==
    (directive = "DomainEvent" /\ IsRecord) =>
        (~PreconditionFailed <=>
            /\ HasFieldOfClass(N_id, "Identifier")
            /\ HasFieldOfClass(N_aggregate_id, "Identifier")
            /\ HasFieldOfClass(N_occurred, "Timestamp")
            /\ HasFieldOfClass(N_version, "Integer"))

\* C4: for every declaration, the ValueSetup precondition succeeds if and
\* only if the declaration is a record with exactly one field and that field
\* is named value, whatever its type.
C4_ValueSetupPreconditionIff ==
    directive = "ValueSetup" =>
        (~PreconditionFailed <=>
            /\ IsRecord
            /\ Len(input.fields) = 1
            /\ input.fields[1].ident = N_value)

C4_Witness ==
    /\ directive = "ValueSetup"
    /\ ~PreconditionFailed
    /\ Len(input.fields) = 1
    /\ input.fields[1].ty.form = "Reference"

\* C5: the constructor ValueSetup emits returns the error and no instance
\* when validate rejects x, and an instance whose value equals x when
\* validate accepts x.
C5_TryFromRoundTrip ==
    call.fn = "try_from" =>
        IF call.arg \in accepted
        THEN call.ret.tag = "Ok" /\ value_of(call.ret) = call.arg
        ELSE call.ret.tag = "Err" /\ call.ret.value = ValidationError

C5_Witness ==
    /\ call.fn = "try_from"
    /\ call.arg \in accepted
    /\ accepted # RawValues
    /\ call.ret.tag = "Ok"

\* C6: a dispatcher called on a value of variant k returns what the accessor
\* of the same name returns on the payload of that value.
C6_DispatcherForwards ==
    (emitted.kind = "DomainEvents" /\ call.fn \in AccessorNames) =>
        call.ret = CallDomainEventMethod(call.arg.payload, call.fn)

C6_Witness ==
    /\ emitted.kind = "DomainEvents"
    /\ call.fn = "version"
    /\ Len(input.variants) = 2
    /\ call.arg.variant = input.variants[2]
    /\ call.ret = Val("u64", 2)

\* The arms of a dispatcher body without the accessor they forward to.
ArmPatterns(body) ==
    [i \in 1..Len(body.arms) |->
        [parent |-> body.arms[i].parent, name |-> body.arms[i].name]]

\* C7: each of the four dispatcher bodies has exactly one arm per declared
\* variant, in declaration order, and no wildcard arm; the four bodies differ
\* only in the accessor they forward to.
C7_ExhaustiveArms ==
    emitted.kind = "DomainEvents" =>
        /\ DOMAIN emitted.methods = AccessorNames
        /\ \A m \in AccessorNames :
              LET body == emitted.methods[m]
              IN  /\ body.op = "match"
                  /\ ~body.wildcard
                  /\ Len(body.arms) = Len(input.variants)
                  /\ \A i \in 1..Len(body.arms) :
                        /\ body.arms[i].name = input.variants[i]
                        /\ body.arms[i].parent = input.ident
                        /\ body.arms[i].func = m
        /\ \A m1, m2 \in AccessorNames :
              ArmPatterns(emitted.methods[m1]) = ArmPatterns(emitted.methods[m2])

C7_Witness ==
    /\ emitted.kind = "DomainEvents"
    /\ Len(input.variants) = 2
    /\ Len(emitted.methods["occurred"].arms) = 2

\* C8: DomainEvents validation succeeds if and only if the declaration is an
\* enum, whatever its variants; any other declaration is rejected with the
\* diagnostic that an enum was expected.
C8_DomainEventsIffEnum ==
    directive = "DomainEvents" =>
        /\ ~PreconditionFailed <=> input.data = "Enum"
        /\ input.data = "Enum" => outcome = "code"
        /\ input.data # "Enum" =>
              /\ outcome = "panic"
              /\ panic.errors = << MsgExpectedEnum >>

C8_Witness ==
    /\ directive = "DomainEvents"
    /\ input.data = "Struct"
    /\ PreconditionFailed
    /\ panic.errors = << MsgExpectedEnum >>

\* Every precondition the specification lists for the directive holds.
PreconditionsHold ==
    CASE directive = "Entity" ->
            /\ IsRecord
            /\ HasFieldOfClass(N_id, "Identifier")
            /\ HasFieldOfClass(N_version, "Integer")
            /\ NoPublicField
      [] directive = "ValueSetup" ->
            /\ IsRecord
            /\ Len(input.fields) = 1
            /\ input.fields[1].ident = N_value
      [] directive = "DomainEvent" ->
            /\ IsRecord
            /\ HasFieldOfClass(N_id, "Identifier")
            /\ HasFieldOfClass(N_aggregate_id, "Identifier")
            /\ HasFieldOfClass(N_occurred, "Timestamp")
            /\ HasFieldOfClass(N_version, "Integer")
      [] directive = "DomainEvents" -> input.data = "Enum"
      [] OTHER -> TRUE

\* C9: every invocation of Entity, ValueSetup, DomainEvent or DomainEvents
\* ends either in emitted code, only when every precondition of the directive
\* holds, or in a panic that halts compilation, whenever some precondition
\* fails; a failed validation emits no code.
C9_CodeOrDiagnostic ==
    directive \in {"Entity", "ValueSetup", "DomainEvent", "DomainEvents"} =>
        /\ outcome \in {"code", "panic"}
        /\ outcome = "code" => PreconditionsHold /\ emitted # NoCode
        /\ ~PreconditionsHold =>
              /\ outcome = "panic"
              /\ emitted = NoCode
              /\ panic.errors # << >>

\* The diagnostic of the earliest predicate, in the order the specification
\* gives, that the declaration fails.
EarliestFailingDiagnostic ==
    IF directive = "Entity"
    THEN IF ~(IsRecord /\ HasFieldOfClass(N_id, "Identifier"))
         THEN MsgExpectedId
         ELSE IF ~HasFieldOfClass(N_version, "Integer")
         THEN MsgExpectedVersion
         ELSE MsgPublicFields
    ELSE IF ~(IsRecord /\ HasFieldOfClass(N_id, "Identifier"))
         THEN MsgExpectedId
         ELSE IF ~HasFieldOfClass(N_aggregate_id, "Identifier")
         THEN MsgExpectedAggregateId
         ELSE IF ~HasFieldOfClass(N_occurred, "Timestamp")
         THEN MsgExpectedOccurred
         ELSE MsgExpectedVersion

\* C10: when validation of Entity or DomainEvent fails, the one diagnostic
\* reported is that of the earliest failing predicate in the fixed order
\* (Entity: id, version, no public field; DomainEvent: id, aggregate_id,
\* occurred, version).
C10_FirstFailingPredicate ==
    (directive \in {"Entity", "DomainEvent"} /\ PreconditionFailed) =>
        panic.errors = << EarliestFailingDiagnostic >>

\* C11: the equality emitted by Entity holds of two instances exactly when
\* their ids are equal, whatever their versions and other fields hold.
C11_EqComparesOnlyId ==
    (emitted.kind = "Entity" /\ call.fn = "eq") =>
        (call.ret = Bool(TRUE)
            <=> call.arg.self[N_id] = call.arg.other[N_id])

\* Two instances with the same id and different versions are equal.
C11_Witness ==
    /\ emitted.kind = "Entity"
    /\ call.fn = "eq"
    /\ call.arg.self[N_id] = call.arg.other[N_id]
    /\ call.arg.self[N_version] # call.arg.other[N_version]
    /\ call.ret = Bool(TRUE)

\* The positions of the declared fields that get a getter.
GetterFields ==
    { i \in 1..Len(input.fields) :
        input.fields[i].ident \notin {N_id, N_version} }

\* The position of the declared field the k-th getter is named after.
FieldOfGetter(k) ==
    CHOOSE i \in 1..Len(input.fields) :
        input.fields[i].ident = emitted.getters[k].name

\* C12: an accepted Entity gets exactly one getter per field other than id
\* and version, in declaration order, named after the field, typed as a
\* reference to it and returning the value the instance stores in it.
C12_GettersPerField ==
    emitted.kind = "Entity" =>
        LET g == emitted.getters
        IN  /\ Len(g) = Cardinality(GetterFields)
            /\ \A i \in GetterFields :
                   Cardinality({ k \in 1..Len(g) :
                                   g[k].name = input.fields[i].ident }) = 1
            /\ \A k \in 1..Len(g) :
                   /\ g[k].name \notin {N_id, N_version}
                   /\ g[k].ty = input.fields[FieldOfGetter(k)].ty
                   /\ g[k].body = RefFieldBody(g[k].name)
            /\ \A k1, k2 \in 1..Len(g) :
                   k1 < k2 => FieldOfGetter(k1) < FieldOfGetter(k2)
            /\ call.fn = "getter" =>
                   call.ret = call.arg.self[g[call.arg.index].name]

\* The second of two getters is called and returns the stored value.
C12_Witness ==
    /\ emitted.kind = "Entity"
    /\ Len(input.fields) = 4
    /\ Len(emitted.getters) = 2
    /\ call.fn = "getter"
    /\ call.arg.index = 2
    /\ call.ret = call.arg.self[emitted.getters[2].name]

\* The positions of the doc attributes among the attributes of a field.
DocPositions(field) ==
    { j \in 1..Len(field.attrs) : field.attrs[j].path = "doc" }

\* The position of the m-th doc attribute of a field.
NthDocPosition(field, m) ==
    CHOOSE j \in DocPositions(field) :
        Cardinality({ j2 \in DocPositions(field) : j2 <= j }) = m

\* C13: each getter carries the doc attributes of its own field, all of
\* them and nothing else, in the order they have on the field.
C13_DocsCopied ==
    emitted.kind = "Entity" =>
        \A k \in 1..Len(emitted.getters) :
            LET field == input.fields[FieldOfGetter(k)]
                docs == emitted.getters[k].docs
            IN  /\ Len(docs) = Cardinality(DocPositions(field))
                /\ \A m \in 1..Len(docs) :
                       docs[m] = field.attrs[NthDocPosition(field, m)]

\* Two documented fields, one with a non-doc attribute between its docs.
C13_Witness ==
    /\ emitted.kind = "Entity"
    /\ Len(emitted.getters) = 2
    /\ \E k \in 1..2 :
          /\ emitted.getters[k].name = N_name
          /\ Len(input.fields[FieldOfGetter(k)].attrs) = 3
          /\ emitted.getters[k].docs
                = <<DocAttr("The name."), DocAttr("Not empty.")>>
    /\ \E k \in 1..2 :
          /\ emitted.getters[k].name = N_aggregate_id
          /\ emitted.getters[k].docs = <<DocAttr("The aggregate.")>>

\* C14: the code emitted for an accepted Entity record has a version()
\* method, and what it returns is the stored version as a u64.
C14_EntityVersionAccessor ==
    emitted.kind = "Entity" =>
        /\ "version" \in DOMAIN emitted.methods
        /\ call.fn = "version" =>
               call.ret = Val("u64", call.arg[N_version].v)

\* The field an accessor of DomainEvent is named after.
FieldOfAccessor(f) ==
    CASE f = "occurred" -> N_occurred
      [] f = "id" -> N_id
      [] f = "aggregate_id" -> N_aggregate_id
      [] f = "version" -> N_version

\* The four field requirements of a DomainEvent record.
DomainEventRequirements ==
    /\ IsRecord
    /\ HasFieldOfClass(N_id, "Identifier")
    /\ HasFieldOfClass(N_aggregate_id, "Identifier")
    /\ HasFieldOfClass(N_occurred, "Timestamp")
    /\ HasFieldOfClass(N_version, "Integer")

\* C15: on a record that meets the four DomainEvent field requirements,
\* each emitted accessor returns the value stored in the field of its
\* name; version alone is converted, to u64.
C15_AccessorsReturnStored ==
    (/\ emitted.kind = "DomainEvent"
     /\ DomainEventRequirements
     /\ call.fn \in AccessorNames) =>
        IF call.fn = "version"
        THEN call.ret = Val("u64", call.arg[N_version].v)
        ELSE call.ret = call.arg[FieldOfAccessor(call.fn)]

\* C16: the error type of the try_from emitted for a ValueSetup type T is
\* the type named T followed by ValidationError.
C16_ErrorTypeNamedAfterType ==
    emitted.kind = "ValueSetup" =>
        emitted.error_type = << error_name_from_type(input.ident) >>

\* The diagnostics of the preconditions that look for a field.
MissingFieldDiagnostics ==
    { MsgExpectedId, MsgExpectedVersion, MsgExpectedAggregateId,
      MsgExpectedOccurred, MsgExpectedValue }

\* C18: Entity, DomainEvent or ValueSetup on a declaration that is not a
\* record fails, and the diagnostic is none of those of a missing field.
C18_ShapeErrorsDistinct ==
    (/\ directive \in {"Entity", "DomainEvent", "ValueSetup"}
     /\ input.data \in {"Enum", "Union"}) =>
        /\ outcome = "panic"
        /\ \A k \in 1..Len(panic.errors) :
               panic.errors[k] \notin MissingFieldDiagnostics

\* The name has uuid in it, in any mix of upper and lower case.
RefIdentifier(n) ==
    \E k \in 1..Len(n) :
        /\ k + 3 <= Len(n)
        /\ n[k] \in {"u", "U"}
        /\ n[k + 1] \in {"u", "U"}
        /\ n[k + 2] \in {"i", "I"}
        /\ n[k + 3] \in {"d", "D"}

RefTimestamp(n) == n = <<"u", "6", "4">>

\* u or i followed by one of the five widths
RefInteger(n) ==
    /\ Len(n) >= 2
    /\ n[1] \in {"u", "i"}
    /\ SubSeq(n, 2, Len(n)) \in
         { <<"8">>, <<"1","6">>, <<"3","2">>, <<"6","4">>, <<"1","2","8">> }

\* The reference classification of a type name.
RefClass(n) ==
    IF RefIdentifier(n) THEN "Identifier"
    ELSE IF RefTimestamp(n) THEN "Timestamp"
    ELSE IF RefInteger(n) THEN "Integer"
    ELSE "Other"

\* The class the three type checks give: the first of them that accepts.
CodeClass ==
    IF ty_class.uuid THEN "Identifier"
    ELSE IF ty_class.timestamp THEN "Timestamp"
    ELSE IF ty_class.int THEN "Integer"
    ELSE "Other"

C20_InsertNeverOverwrites ==
    repo_call.op = "insert" =>
        LET entity == repo_call.arg
            key == Val("String", UuidStringBase + entity.id.v)
            before == repo_call.before
        IN  IF key \in DOMAIN before
            THEN /\ repo_call.ret.tag = "None"
                 /\ data = before
            ELSE /\ repo_call.ret.tag = "Some"
                 /\ DOMAIN data = DOMAIN before \cup {key}
                 /\ data[key] = entity
                 /\ \A k \in DOMAIN before : data[k] = before[k]
                 /\ MockUserRepository_get(data, key).tag = "Some"
                 /\ MockUserRepository_get(data, key).value = entity

\* An insert under a stored id of an entity that differs from the stored.
C20_Witness ==
    /\ repo_call.op = "insert"
    /\ NaiveUser_id(repo_call.arg) \in DOMAIN repo_call.before
    /\ repo_call.before[NaiveUser_id(repo_call.arg)] # repo_call.arg
    /\ Cardinality(DOMAIN repo_call.before) = 2
    /\ repo_call.ret.tag = "None"
    /\ data = repo_call.before

\* C21: update of an entity whose id is not stored returns None and leaves
\* the storage as it was; update of an entity whose id is stored replaces
\* that entry and no other, returns Some, and get of the id then returns
\* the updated entity.
C21_UpdateOnlyExisting ==
    repo_call.op = "update" =>
        LET entity == repo_call.arg
            key == Val("String", UuidStringBase + entity.id.v)
            before == repo_call.before
        IN  IF key \notin DOMAIN before
            THEN /\ repo_call.ret.tag = "None"
                 /\ data = before
            ELSE /\ repo_call.ret.tag = "Some"
                 /\ DOMAIN data = DOMAIN before
                 /\ data[key] = entity
                 /\ \A k \in DOMAIN before \ {key} : data[k] = before[k]
                 /\ MockUserRepository_get(data, key).tag = "Some"
                 /\ MockUserRepository_get(data, key).value = entity

\* An update of a stored entity by one that differs, next to another entry.
C21_Witness ==
    /\ repo_call.op = "update"
    /\ NaiveUser_id(repo_call.arg) \in DOMAIN repo_call.before
    /\ repo_call.before[NaiveUser_id(repo_call.arg)] # repo_call.arg
    /\ Cardinality(DOMAIN repo_call.before) = 2
    /\ repo_call.ret.tag = "Some"
    /\ data[NaiveUser_id(repo_call.arg)] = repo_call.arg

\* What remove returns and leaves behind.
RemoveEffect ==
    repo_call.op = "remove" =>
        LET key == repo_call.arg
            before == repo_call.before
        IN  /\ key \notin DOMAIN data
            /\ ~Repository_contains_key(data, key)
            /\ MockUserRepository_get(data, key).tag = "None"
            /\ repo_call.ret.tag = "Some" <=> key \in DOMAIN before
            /\ DOMAIN data = DOMAIN before \ {key}
            /\ \A k \in DOMAIN data : data[k] = before[k]

\* What get and contains_key answer for a key that is not stored.
AbsentKeyAnswers ==
    /\ (repo_call.op = "get" /\ repo_call.arg \notin DOMAIN data) =>
           repo_call.ret.tag = "None"
    /\ (repo_call.op = "contains_key" /\ repo_call.arg \notin DOMAIN data) =>
           repo_call.ret = Bool(FALSE)

\* A key that is not stored comes to be stored by an insert of it only.
StoredByInsertOnly ==
    \A key \in Keys :
        (key \notin DOMAIN data /\ key \in DOMAIN data') =>
            /\ repo_call'.op = "insert"
            /\ NaiveUser_id(repo_call'.arg) = key

\* C22: remove of k leaves k not stored, returns Some exactly when k was
\* stored, and changes no entry of another key; while k is not stored
\* contains_key(k) is false and get(k) is None, and k stays so until an
\* insert of k.
C22_RemoveThenAbsent ==
    /\ [](RemoveEffect /\ AbsentKeyAnswers)
    /\ [][StoredByInsertOnly]_vars

\* A stored key is removed next to another entry, which stays.
C22_Witness ==
    /\ repo_call.op = "remove"
    /\ repo_call.arg \in DOMAIN repo_call.before
    /\ Cardinality(DOMAIN repo_call.before) = 2
    /\ Cardinality(DOMAIN data) = 1
    /\ repo_call.ret.tag = "Some"

Min(a, b) == IF a < b THEN a ELSE b
Max(a, b) == IF a > b THEN a ELSE b

\* C28: get_paged(page_num, page_size) with page_num >= 1 on a repository
\* of n entities returns min(page_size, max(0, n - (page_num - 1) *
\* page_size)) entities and takes no slice outside the collection.
C28_PageLength ==
    (repo_call.op = "get_paged" /\ repo_call.arg.page_num >= 1) =>
        LET n == Cardinality(DOMAIN repo_call.before)
            page_num == repo_call.arg.page_num
            page_size == repo_call.arg.page_size
        IN  /\ repo_call.ret.tag = "Ok"
            /\ Len(repo_call.ret.value)
                 = Min(page_size, Max(0, n - (page_num - 1) * page_size))


\* An event is present in a store: its aggregate is known, and whatever
\* the order the map is walked in, its id is found and get returns it.
EventPresent(map, event) ==
    LET r == UserEventRecord_from(event)
    IN  /\ UserEventRepository_contains_aggregate(map, r.aggregate_id)
        /\ \A order \in HashMap_iter_orders(map) :
              /\ EventRepository_contains_event(map, r.id, order)
              /\ UserEventRepository_get(map, r.id, order).tag = "Some"
              /\ UserEventRepository_get(map, r.id, order).value = event

\* The places of the records of a store: the key and the index in its list.
StoredRecords(map) ==
    UNION { { <<k, i>> : i \in 1..Len(map[k]) } : k \in DOMAIN map }

\* Only a stored event can be present, so the stored ones are looked at,
\* and only in the steps that change the store.
PresentStays ==
    \/ store' = store
    \/ \A p \in StoredRecords(store) :
          LET event == store[p[1]][p[2]].event_data
          IN  EventPresent(store, event) => EventPresent(store', event)

AcceptedIsPresent ==
    (event_call.op = "insert" /\ event_call.ret.tag = "Some")
        => EventPresent(store, event_call.arg)


\* C23: the event store is append-only: an event that insert has accepted
\* is present right after the insert, and an event that is present stays
\* present in every later state: contains_event of its id and
\* contains_aggregate of its aggregate id are true and get of its id
\* returns the event itself.
C23_AppendOnly == []AcceptedIsPresent /\ [][PresentStays]_vars

\* A second event was accepted for an aggregate that already held one, and
\* the first one is still there.
C23_Witness ==
    /\ event_call.op = "insert"
    /\ event_call.ret.tag = "Some"
    /\ \E event \in UserEvents :
          /\ event # event_call.arg
          /\ UserEventRecord_from(event).aggregate_id
                = UserEventRecord_from(event_call.arg).aggregate_id
          /\ EventPresent(event_call.before, event)
          /\ EventPresent(store, event)

\* C24: for a known aggregate, num_events_since_version(aggregate_id,
\* version, num_events) returns a vector of length num_events that holds
\* the events with the versions version + 1 up to version + num_events in
\* ascending order.
C24_NumEventsLength ==
    ( /\ event_call.op = "num_events_since_version"
      /\ event_call.arg.aggregate_id \in DOMAIN event_call.before )
        => /\ event_call.ret.tag = "Some"
           /\ Len(event_call.ret.value) = event_call.arg.num_events
           /\ \A i \in 1..Len(event_call.ret.value) :
                 UserEventRecord_from(event_call.ret.value[i]).version.v
                    = event_call.arg.version + i

EventIdsUnique ==
    \A p \in StoredRecords(store), q \in StoredRecords(store) :
        store[p[1]][p[2]].id = store[q[1]][q[2]].id => p = q

RecordsUnderOwnAggregate ==
    \A p \in StoredRecords(store) : store[p[1]][p[2]].aggregate_id = p[1]

InsertOfStoredId ==
    /\ event_call.op = "insert"
    /\ \E p \in StoredRecords(event_call.before) :
          event_call.before[p[1]][p[2]].id
             = UserEventRecord_from(event_call.arg).id

\* C30: in every reachable state of the event store no event id occurs in
\* more than one stored record, every record is in the list keyed by its
\* own aggregate_id, and an insert of an event whose id is already stored
\* returns None and leaves the store as it was.
C30_EventIdsUnique ==
    /\ EventIdsUnique
    /\ RecordsUnderOwnAggregate
    /\ InsertOfStoredId =>
          (event_call.ret.tag = "None" /\ store = event_call.before)

\* An event was offered whose id is stored under another aggregate.
C30_Witness ==
    /\ InsertOfStoredId
    /\ event_call.ret.tag = "None"
    /\ \E p \in StoredRecords(event_call.before) :
          /\ event_call.before[p[1]][p[2]].id
                = UserEventRecord_from(event_call.arg).id
          /\ p[1] # UserEventRecord_from(event_call.arg).aggregate_id


\* C25: for every integer type accepted for the version field and every
\* value of that type, the generated version() returns an unsigned 64-bit
\* value numerically equal to the stored value.
C25_VersionKeepsNumber ==
    cast_call.done =>
        (cast_call.ret.t = "u64" /\ cast_call.ret.v = cast_call.arg.v)


UnwrapOnNone ==
    /\ outcome = "panic"
    /\ panic.message = "called Option::unwrap() on a None value"

\* C26: for every declaration that passes the precondition of ValueSetup,
\* the look-up of the type name of the value field yields a name, and the
\* unwrap that follows the precondition does not fail, whatever the form
\* of the type of the field.
C26_UnwrapNeverFails ==
    (directive = "ValueSetup" /\ value_object_precondition(input).ok)
        => (value_type_name(input).tag = "Some" /\ ~UnwrapOnNone)

\* The declared type of the field named value.
DeclaredValueType ==
    LET i == CHOOSE i \in 1..Len(input.fields) :
                 input.fields[i].ident = N_value
    IN  input.fields[i].ty

\* C27: the input type of the constructor generated by ValueSetup is
\* exactly the declared type of the value field, also when that type is
\* written as a path of several segments.
C27_TryFromDeclaredType ==
    emitted.kind = "ValueSetup"
        => PathType(<< emitted.try_from_type >>) = DeclaredValueType


VersionCountsMutations ==
    user # NoUser => AggregateRoot_version(user).v = mutations

ConstructedAtZero ==
    (agg_call.op = "new" /\ agg_call.ret = "Ok")
        => AggregateRoot_version(user).v = 0

MutationRaisesByOne ==
    (agg_call.op \in {"change_fname", "change_email"} /\ agg_call.ret = "Ok")
        => AggregateRoot_version(user).v
              = AggregateRoot_version(agg_call.before).v + 1

FailedChangeEmail ==
    (agg_call.op = "change_email" /\ agg_call.ret = "Err")
        => /\ user.email = agg_call.before.email
           /\ user.version = agg_call.before.version

\* C29: in every reachable state of an aggregate its version is the number
\* of successful mutations (change_fname, change_email) since construction
\* at version 0: each successful mutation raises the version by exactly 1,
\* and a change_email whose validation fails changes neither the email nor
\* the version.
C29_VersionCountsMutations ==
    /\ VersionCountsMutations
    /\ ConstructedAtZero
    /\ MutationRaisesByOne
    /\ FailedChangeEmail

\* A change_email was refused after two mutations had succeeded.
C29_Witness ==
    /\ agg_call.op = "change_email"
    /\ agg_call.ret = "Err"
    /\ mutations = 2
    /\ AggregateRoot_version(user).v = 2

====
